---- MODULE Spec2Model ----
(***************************************************************************)
(* Model of homework.py: a bot that polls a homework-review API and relays *)
(* the verdict of the first pending homework to one chat.                   *)
(*                                                                         *)
(* Python values that arrive in JSON are tagged records [t, n, s]:         *)
(*   t = "absent"  the key is not in the dict                               *)
(*   t = "none"    JSON null / Python None                                  *)
(*   t = "int"     an integer, its value in n                               *)
(*   t = "str"     a string, its text in s, a sequence of tokens            *)
(*   t = "list"    a list of n opaque elements (truthy iff n > 0, and       *)
(*                 unhashable)                                              *)
(* A string is a sequence of tokens, so that str.format is concatenation   *)
(* and "contains" is a search for a contiguous run of tokens.  The Russian *)
(* texts of the source are written by their English renderings.            *)
(***************************************************************************)
EXTENDS Integers, Sequences, FiniteSets, TLC

VARIABLES
    pc,                 \* where main is: "fetch", "deliver", "notify", "sleep", "terminated"
                        \* (and "parse", "parsed" for a lone call of parse_homework_status,
                        \* "get", "got" for a lone call of get_homeworks)
    current_timestamp,  \* main's cursor
    response,           \* what the review API answered to the request of this iteration
    fetched,            \* the latest get_homeworks call: argument, request issued, outcome
    homework_statuses,  \* main's local: <<payload>> once get_homeworks has returned it
                        \* in this iteration, <<>> before
    homework,           \* main's local: the record handed to parse_homework_status
    parsed,             \* outcome of the parse_homework_status call of this iteration
    message,            \* the text about to be handed to send_message
    delivered,          \* the send_message calls of the current iteration, in order
    slept,              \* seconds slept since the latest get_homeworks call
    log                 \* log events of the current iteration, in order

vars == <<pc, current_timestamp, response, fetched, homework_statuses, homework,
          parsed, message, delivered, slept, log>>

---------------------------------------------------------------------------
(* Bounds of the model *)

\* timestamps are 0 .. MaxDate, in units in which the thresholds below fall
MaxDate == 4
\* the clock value main reads at startup
StartTime == 1
\* longest homeworks list the review API returns
MaxHomeworks == 2

---------------------------------------------------------------------------
(* Python values *)

Absent == [t |-> "absent", n |-> 0, s |-> <<>>]
PyNone == [t |-> "none", n |-> 0, s |-> <<>>]
PyInt(i) == [t |-> "int", n |-> i, s |-> <<>>]
PyStr(x) == [t |-> "str", n |-> 0, s |-> x]
PyList(k) == [t |-> "list", n |-> k, s |-> <<>>]

\* dict.get(key): None when the key is absent
Get(v) == IF v.t = "absent" THEN PyNone ELSE v

\* dict.get(key, default)
GetDefault(v, default) == IF v.t = "absent" THEN default ELSE v

\* bool(v)
Truthy(v) ==
    CASE v.t = "str" -> v.s # <<>>
      [] v.t = "int" -> v.n # 0
      [] v.t = "list" -> v.n > 0
      [] OTHER -> FALSE

\* isinstance(v, str)
IsStr(v) == v.t = "str"

\* hash(v) succeeds
Hashable(v) == v.t # "list"

\* sub in text, for strings
Contains(text, sub) ==
    \E i \in 0..(Len(text) - Len(sub)) : SubSeq(text, i + 1, i + Len(sub)) = sub

---------------------------------------------------------------------------
(* Exceptions and results of calls *)

Exc(cls, arg) == [cls |-> cls, arg |-> arg]
NoExc == Exc("none", "")

\* telegram.error: NetworkError is a TelegramError
IsTelegramError(e) == e.cls \in {"NetworkError", "TelegramError"}

\* requests: HTTPError is a RequestException
IsRequestException(e) == e.cls \in {"HTTPError", "RequestException"}

Return(v, events) == [exc |-> NoExc, val |-> v, log |-> events]
Raise(e, events) == [exc |-> e, val |-> <<>>, log |-> events]
NoResult == [exc |-> NoExc, val |-> <<>>, log |-> <<>>]

---------------------------------------------------------------------------
(* Module constants *)

TIME_PAUSE == 5 * 60

STATUSES ==
    (<<"reviewing">> :> <<"work under review">>)
    @@ (<<"rejected">> :> <<"errors found, not accepted">>)
    @@ (<<"approved">> :> <<"accepted by reviewer">>)

\* a template that leaves the homework name out
NamelessVerdictMessage(homework_name, verdict) ==
    <<"Your work has been checked: \"">> \o <<"\"!\n\n">> \o verdict

VERDICT_MESSAGE(homework_name, verdict) ==
    <<"Your work has been checked: \"">> \o homework_name \o <<"\"!\n\n">> \o verdict

SERVICE_ERROR_MESSAGE(error) == <<"The bot failed with the error (">> \o error \o <<")">>

\* str(e) of an exception
ExcStr(e) == <<e.cls, e.arg>>

---------------------------------------------------------------------------
(* parse_homework_status *)

\* parse_homework_status without its check of homework_name
NameUncheckedParse(hw) ==
    LET homework_name == Get(hw.homework_name)
        status == Get(hw.status)
    IN  IF ~Truthy(status) THEN
            Raise(Exc("KeyError", "status"), <<"error: PARSING_ERROR status">>)
        ELSE IF ~Hashable(status) THEN
            Raise(Exc("TypeError", "unhashable type"), <<>>)
        ELSE IF ~(status.t = "str" /\ status.s \in DOMAIN STATUSES) THEN
            Raise(Exc("KeyError", "status"), <<"error: PARSING_ERROR status">>)
        ELSE IF ~(IsStr(homework_name) /\ IsStr(status)) THEN
            Raise(Exc("TypeError", "PARSING_TYPE_ERROR"), <<>>)
        ELSE
            Return(VERDICT_MESSAGE(homework_name.s, STATUSES[status.s]), <<>>)

parse_homework_status(hw) ==
    LET homework_name == Get(hw.homework_name)
        status == Get(hw.status)
    IN  IF ~Truthy(homework_name) THEN
            Raise(Exc("KeyError", "homework_name"),
                  <<"error: PARSING_ERROR homework_name">>)
        ELSE IF ~Truthy(status) THEN
            Raise(Exc("KeyError", "status"), <<"error: PARSING_ERROR status">>)
        ELSE IF ~Hashable(status) THEN
            \* status not in STATUSES.keys() hashes status
            Raise(Exc("TypeError", "unhashable type"), <<>>)
        ELSE IF ~(status.t = "str" /\ status.s \in DOMAIN STATUSES) THEN
            Raise(Exc("KeyError", "status"), <<"error: PARSING_ERROR status">>)
        ELSE IF ~(IsStr(homework_name) /\ IsStr(status)) THEN
            Raise(Exc("TypeError", "PARSING_TYPE_ERROR"), <<>>)
        ELSE
            Return(VERDICT_MESSAGE(homework_name.s, STATUSES[status.s]), <<>>)

---------------------------------------------------------------------------
(* The review API *)

\* datetime.utcfromtimestamp accepts 0 .. MAX_TIMESTAMP (9999-12-31 23:59:59);
\* above it, up to TIME_T_MAX, it raises ValueError (year out of range); above
\* TIME_T_MAX it raises OverflowError (OSError on some platforms)
MAX_TIMESTAMP == 2
TIME_T_MAX == 3

NOT_FOUND == 404

Payload(error, code, current_date, homeworks) ==
    [error |-> error, code |-> code, current_date |-> current_date,
     homeworks |-> homeworks]

\* the value of the homeworks key: absent, null, or a list of records
NoHomeworks(t) == [t |-> t, items |-> <<>>]
HomeworkList(items) == [t |-> "list", items |-> items]

EmptyPayload == Payload(Absent, Absent, Absent, NoHomeworks("absent"))

\* what the network gives back to requests.get
TransportFailure ==
    [kind |-> "RequestException", status_code |-> 0, json |-> "none",
     body |-> EmptyPayload]
HttpResponse(status_code, json, body) ==
    [kind |-> "response", status_code |-> status_code, json |-> json, body |-> body]
NoResponse ==
    [kind |-> "none", status_code |-> 0, json |-> "none", body |-> EmptyPayload]

FetchResult(exc, val, events, requested) ==
    [exc |-> exc, val |-> val, log |-> events, requested |-> requested]

\* the try block around datetime.utcfromtimestamp(current_timestamp):
\* "ok", "logged" (ValueError caught and logged) or the exception that escapes
DateCheck(ts) ==
    IF ts.t # "int" THEN Exc("TypeError", "cannot be interpreted as an integer")
    ELSE IF ts.n <= MAX_TIMESTAMP THEN NoExc
    ELSE IF ts.n <= TIME_T_MAX THEN Exc("ValueError", "year is out of range")
    ELSE Exc("OverflowError", "timestamp out of range for platform time_t")

\* the lines after the request, looking at the error field alone
ErrorOnlyReadResponse(net, events) ==
    IF net.kind = "RequestException" THEN
        FetchResult(Exc("UnboundLocalError", "response"), EmptyPayload,
                    events \o <<"logging.error: REQUEST_ERROR">>, TRUE)
    ELSE IF net.status_code = NOT_FOUND THEN
        FetchResult(Exc("HTTPError", "SERVER_ERROR"), EmptyPayload, events, TRUE)
    ELSE IF net.json # "dict" THEN
        FetchResult(Exc("ValueError", "JSONDecodeError"), EmptyPayload, events, TRUE)
    ELSE IF Truthy(Get(net.body.error)) THEN
        FetchResult(Exc("RequestException", "SERVER_ERROR"), EmptyPayload,
                    events \o <<"debug: homework_statuses">>, TRUE)
    ELSE
        FetchResult(NoExc, net.body, events \o <<"debug: homework_statuses">>, TRUE)

\* the lines after the request: status check, decoding, error indicators
ReadResponse(net, events) ==
    IF net.kind = "RequestException" THEN
        \* the except clause logs and falls through: response is unbound
        FetchResult(Exc("UnboundLocalError", "response"), EmptyPayload,
                    events \o <<"logging.error: REQUEST_ERROR">>, TRUE)
    ELSE IF net.status_code = NOT_FOUND THEN
        FetchResult(Exc("HTTPError", "SERVER_ERROR"), EmptyPayload, events, TRUE)
    ELSE IF net.json # "dict" THEN
        FetchResult(Exc("ValueError", "JSONDecodeError"), EmptyPayload, events, TRUE)
    ELSE IF Truthy(Get(net.body.error)) \/ Truthy(Get(net.body.code)) THEN
        FetchResult(Exc("RequestException", "SERVER_ERROR"), EmptyPayload,
                    events \o <<"debug: homework_statuses">>, TRUE)
    ELSE
        FetchResult(NoExc, net.body, events \o <<"debug: homework_statuses">>, TRUE)

get_homeworks(ts, net) ==
    LET date == DateCheck(ts)
    IN  IF date = NoExc THEN ReadResponse(net, <<>>)
        ELSE IF date.cls = "ValueError" THEN
            ReadResponse(net, <<"logging.error: DATE_ERROR">>)
        ELSE FetchResult(date, EmptyPayload, <<>>, FALSE)

---------------------------------------------------------------------------
(* The messaging API *)

\* what bot.send_message does: returns a Message, or raises
BotOutcomes == {"Message", "NetworkError", "TelegramError"}

\* send_message raising its own error for a NetworkError
WrappingSendMessage(text, outcome) ==
    CASE outcome = "NetworkError" ->
            Raise(Exc("RuntimeError", "TELEGRAM_NETWORK_ERROR"),
                  <<"error: TELEGRAM_NETWORK_ERROR">>)
      [] outcome = "TelegramError" ->
            Return("None", <<"error: TELEGRAM_API_ERROR">>)
      [] OTHER -> Return("Message", <<>>)

\* send_message letting NetworkError through
ReraisingSendMessage(text, outcome) ==
    CASE outcome = "NetworkError" ->
            Raise(Exc("NetworkError", ""), <<"error: TELEGRAM_NETWORK_ERROR">>)
      [] outcome = "TelegramError" ->
            Return("None", <<"error: TELEGRAM_API_ERROR">>)
      [] OTHER -> Return("Message", <<>>)

\* send_message with the except NetworkError clause alone
NetworkOnlySendMessage(text, outcome) ==
    CASE outcome = "NetworkError" ->
            Return("None", <<"error: TELEGRAM_NETWORK_ERROR">>)
      [] outcome = "TelegramError" ->
            Raise(Exc("TelegramError", ""), <<>>)
      [] OTHER -> Return("Message", <<>>)

send_message(text, outcome) ==
    CASE outcome = "NetworkError" ->
            Return("None", <<"error: TELEGRAM_NETWORK_ERROR">>)
      [] outcome = "TelegramError" ->
            Return("None", <<"error: TELEGRAM_API_ERROR">>)
      [] OTHER -> Return("Message", <<>>)

---------------------------------------------------------------------------
(* Inputs *)

Homework(homework_name, status) == [homework_name |-> homework_name, status |-> status]
NoHomework == Homework(Absent, Absent)

Names ==
    {Absent, PyNone, PyStr(<<>>), PyStr(<<"Task1">>), PyStr(<<"Task", "2">>),
     PyInt(0), PyInt(5), PyList(0), PyList(1)}

StatusValues ==
    {Absent, PyNone, PyStr(<<>>), PyStr(<<"reviewing">>), PyStr(<<"rejected">>),
     PyStr(<<"approved">>), PyStr(<<"unknown">>), PyInt(0), PyInt(5), PyList(0),
     PyList(1)}

\* the records a lone call of parse_homework_status is given
Homeworks == {Homework(n, s) : n \in Names, s \in StatusValues}

\* the records the review API puts first in a homeworks list
FirstRecords ==
    {Homework(PyStr(<<"Task1">>), PyStr(<<"approved">>)),
     Homework(PyStr(<<"Task1">>), PyStr(<<"rejected">>)),
     Homework(Absent, PyStr(<<"approved">>)),
     Homework(PyStr(<<"Task1">>), PyStr(<<"unknown">>)),
     Homework(PyInt(5), PyStr(<<"approved">>)),
     Homework(PyStr(<<"Task1">>), PyInt(5))}

\* and after the first
LaterRecord == Homework(PyStr(<<"Task", "2">>), PyStr(<<"reviewing">>))

HomeworkLists ==
    {HomeworkList(<<>>)}
    \cup {HomeworkList(<<h>> \o [i \in 1..k |-> LaterRecord]) :
            h \in FirstRecords, k \in 0..(MaxHomeworks - 1)}

HomeworksValues == {NoHomeworks("absent"), NoHomeworks("none")} \cup HomeworkLists

CurrentDates ==
    {Absent, PyNone, PyStr(<<"tomorrow">>)} \cup {PyInt(d) : d \in 0..MaxDate}

\* payloads without error indicators
PlainPayloads ==
    {Payload(Absent, Absent, d, hs) : d \in CurrentDates, hs \in HomeworksValues}

\* payloads with an error or a code field, truthy or falsy
Indicators ==
    {<<PyStr(<<"not_ready">>), Absent>>, <<PyStr(<<>>), Absent>>,
     <<Absent, PyStr(<<"not_authenticated">>)>>, <<Absent, PyInt(0)>>}

FlaggedPayloads ==
    {Payload(i[1], i[2], d, hs) :
        i \in Indicators,
        d \in {Absent, PyInt(StartTime + 1)},
        hs \in {NoHomeworks("absent"),
                HomeworkList(<<Homework(PyStr(<<"Task1">>), PyStr(<<"approved">>))>>)}}

Payloads == PlainPayloads \cup FlaggedPayloads

StatusCodes == {200, 500}

Responses ==
    {TransportFailure}
    \cup {HttpResponse(NOT_FOUND, "dict", b) :
            b \in {EmptyPayload,
                   Payload(PyStr(<<"not_ready">>), Absent, Absent, NoHomeworks("absent")),
                   Payload(Absent, Absent, PyInt(StartTime + 1),
                           HomeworkList(<<LaterRecord>>))}}
    \cup {HttpResponse(c, "dict", b) : c \in StatusCodes, b \in Payloads}
    \cup {HttpResponse(c, "invalid", EmptyPayload) : c \in StatusCodes}

---------------------------------------------------------------------------
(* main *)

NoFetch ==
    [called |-> FALSE, from_date |-> PyNone, requested |-> FALSE, answer |-> "none",
     exc |-> NoExc]

\* one call of send_message: its argument, what bot.send_message did, what
\* send_message returned or raised, and which line of main made the call
Delivery(text, outcome, r, purpose) ==
    [text |-> text, outcome |-> outcome, returned |-> r.val, raised |-> r.exc,
     purpose |-> purpose]

\* main without the assignment to current_timestamp
KeptTimestamp(payload, ts) == ts

\* homework_statuses.get('current_date'), without the default
DefaultlessTimestamp(payload, ts) == Get(payload.current_date)

\* current_timestamp = homework_statuses.get('current_date', current_timestamp)
NextTimestamp(payload, ts) == GetDefault(payload.current_date, ts)

\* if homeworks is None, in place of if not homeworks
NoneOnlyNoWork(payload) == payload.homeworks.t # "list"

\* not homeworks, for homeworks = homework_statuses.get('homeworks')
NoWork(payload) ==
    ~(payload.homeworks.t = "list" /\ payload.homeworks.items # <<>>)

\* homeworks[-1]
LastRecord(homeworks) ==
    IF homeworks.t # "list" THEN
        Raise(Exc("TypeError", "'NoneType' object is not subscriptable"), <<>>)
    ELSE IF homeworks.items = <<>> THEN
        Raise(Exc("IndexError", "list index out of range"), <<>>)
    ELSE Return(homeworks.items[Len(homeworks.items)], <<>>)

\* homeworks[0]
FirstRecord(homeworks) ==
    IF homeworks.t # "list" THEN
        Raise(Exc("TypeError", "'NoneType' object is not subscriptable"), <<>>)
    ELSE IF homeworks.items = <<>> THEN
        Raise(Exc("IndexError", "list index out of range"), <<>>)
    ELSE Return(homeworks.items[1], <<>>)

\* main's except Exception clause without its send_message call
QuietExceptClause(e) == "sleep"

\* main without its except Exception clause
TelegramOnlyExceptClause(e) == IF IsTelegramError(e) THEN "sleep" ELSE "terminated"

\* the except clause of main that takes an exception raised in the try block:
\* where main goes next
ExceptClause(e) == IF IsTelegramError(e) THEN "sleep" ELSE "notify"

\* the state main is left in by an exception e raised in the try block
Caught(e, events) ==
    /\ pc' = ExceptClause(e)
    /\ message' = IF ExceptClause(e) = "notify" THEN SERVICE_ERROR_MESSAGE(ExcStr(e))
                  ELSE <<>>
    /\ log' = events \o <<IF ExceptClause(e) = "notify" THEN "error: exc_info=True"
                          ELSE "error: exc_info=False">>

Init ==
    /\ pc = "fetch"
    /\ current_timestamp = PyInt(StartTime)
    /\ response = NoResponse
    /\ fetched = NoFetch
    /\ homework_statuses = <<>>
    /\ homework = NoHomework
    /\ parsed = NoResult
    /\ message = <<>>
    /\ delivered = <<>>
    /\ slept = 0
    /\ log = <<"info: SERVICE_START_MESSAGE">>

\* get_homeworks and the lines of the try block up to the call of send_message
Fetch ==
    /\ pc = "fetch"
    /\ \E net \in Responses :
        LET r == get_homeworks(current_timestamp, net)
            payload == r.val
            first == FirstRecord(payload.homeworks)
            p == parse_homework_status(first.val)
            seen == r.log \o <<"debug: SERVER_RESPONSE">>
        IN  /\ response' = IF r.requested THEN net ELSE NoResponse
            /\ fetched' = [called |-> TRUE, from_date |-> current_timestamp,
                           requested |-> r.requested,
                           answer |-> IF r.requested THEN net.kind ELSE "none",
                           exc |-> r.exc]
            /\ homework_statuses' = IF r.exc = NoExc THEN <<payload>> ELSE <<>>
            /\ slept' = 0
            /\ delivered' = <<>>
            /\ IF r.exc # NoExc THEN
                    /\ Caught(r.exc, r.log)
                    /\ UNCHANGED <<current_timestamp, homework, parsed>>
               ELSE
                    /\ current_timestamp' = NextTimestamp(payload, current_timestamp)
                    /\ IF NoWork(payload) THEN
                            /\ pc' = "sleep"
                            /\ log' = seen \o <<"info: WORK_NOT_FOUND">>
                            /\ UNCHANGED <<homework, parsed, message>>
                       ELSE IF first.exc # NoExc THEN
                            /\ Caught(first.exc, seen)
                            /\ UNCHANGED <<homework, parsed>>
                       ELSE
                            /\ homework' = first.val
                            /\ parsed' = p
                            /\ IF p.exc # NoExc THEN Caught(p.exc, seen \o p.log)
                               ELSE /\ pc' = "deliver"
                                    /\ message' = p.val
                                    /\ log' = seen

\* sent_message = send_message(message=message) and the lines after it
Deliver ==
    /\ pc = "deliver"
    /\ \E outcome \in BotOutcomes :
        LET r == send_message(message, outcome)
        IN  /\ delivered' = Append(delivered, Delivery(message, outcome, r, "verdict"))
            /\ IF r.exc # NoExc THEN Caught(r.exc, log \o r.log)
               ELSE /\ pc' = "sleep"
                    /\ message' = <<>>
                    /\ log' = log \o r.log
                              \o (IF r.val = "Message"
                                  THEN <<"info: SERVICE_SENT_MESSAGE">> ELSE <<>>)
    /\ UNCHANGED <<current_timestamp, response, fetched, homework_statuses, homework,
                   parsed, slept>>

\* send_message(message=SERVICE_ERROR_MESSAGE.format(error=e)) in except Exception
Notify ==
    /\ pc = "notify"
    /\ \E outcome \in BotOutcomes :
        LET r == send_message(message, outcome)
        IN  /\ delivered' = Append(delivered, Delivery(message, outcome, r, "failure"))
            /\ pc' = IF r.exc # NoExc THEN "terminated" ELSE "sleep"
            /\ log' = log \o r.log
    /\ message' = <<>>
    /\ UNCHANGED <<current_timestamp, response, fetched, homework_statuses, homework,
                   parsed, slept>>

\* the top of the loop reached without time.sleep
SkippedSleep ==
    /\ pc = "sleep"
    /\ pc' = "fetch"
    /\ response' = NoResponse
    /\ homework_statuses' = <<>>
    /\ homework' = NoHomework
    /\ parsed' = NoResult
    /\ message' = <<>>
    /\ delivered' = <<>>
    /\ log' = <<>>
    /\ UNCHANGED <<current_timestamp, fetched, slept>>

\* time.sleep(TIME_PAUSE), then the top of the loop: a new iteration
Sleep ==
    /\ pc = "sleep"
    /\ slept' = slept + TIME_PAUSE
    /\ pc' = "fetch"
    /\ response' = NoResponse
    /\ homework_statuses' = <<>>
    /\ homework' = NoHomework
    /\ parsed' = NoResult
    /\ message' = <<>>
    /\ delivered' = <<>>
    /\ log' = <<>>
    /\ UNCHANGED <<current_timestamp, fetched>>

Next == Fetch \/ Deliver \/ Notify \/ Sleep

Spec == Init /\ [][Next]_vars

\* every call returns and every sleep ends: main is one thread that always
\* takes its next step
FairSpec == Spec /\ WF_vars(Next)

---------------------------------------------------------------------------
(* A lone call of parse_homework_status *)

ParseInit ==
    /\ pc = "parse"
    /\ homework \in Homeworks
    /\ current_timestamp = PyInt(StartTime)
    /\ response = NoResponse
    /\ fetched = NoFetch
    /\ homework_statuses = <<>>
    /\ parsed = NoResult
    /\ message = <<>>
    /\ delivered = <<>>
    /\ slept = 0
    /\ log = <<>>

Parse ==
    /\ pc = "parse"
    /\ parsed' = parse_homework_status(homework)
    /\ log' = log \o parsed'.log
    /\ pc' = "parsed"
    /\ UNCHANGED <<current_timestamp, response, fetched, homework_statuses, homework,
                   message, delivered, slept>>

ParseSpec == ParseInit /\ [][Parse]_vars

---------------------------------------------------------------------------
(* A lone call of get_homeworks *)

\* the values main's cursor takes
Timestamps == {PyNone, PyStr(<<"tomorrow">>)} \cup {PyInt(d) : d \in 0..MaxDate}

GetInit ==
    /\ pc = "get"
    /\ current_timestamp \in Timestamps
    /\ response \in Responses
    /\ fetched = NoFetch
    /\ homework_statuses = <<>>
    /\ homework = NoHomework
    /\ parsed = NoResult
    /\ message = <<>>
    /\ delivered = <<>>
    /\ slept = 0
    /\ log = <<>>

\* get_homeworks(current_timestamp), the network answering with response
GetHomeworks ==
    /\ pc = "get"
    /\ LET r == get_homeworks(current_timestamp, response)
       IN  /\ fetched' = [called |-> TRUE, from_date |-> current_timestamp,
                          requested |-> r.requested,
                          answer |-> IF r.requested THEN response.kind ELSE "none",
                          exc |-> r.exc]
           /\ homework_statuses' = IF r.exc = NoExc THEN <<r.val>> ELSE <<>>
           /\ log' = r.log
    /\ pc' = "got"
    /\ UNCHANGED <<current_timestamp, response, homework, parsed, message, delivered,
                   slept>>

GetSpec == GetInit /\ [][GetHomeworks]_vars

---------------------------------------------------------------------------
(* Vocabulary of the properties *)

KnownStatuses == {<<"reviewing">>, <<"rejected">>, <<"approved">>}

\* a record with a non-empty string homework_name and a known status
ValidRecord(hw) ==
    /\ IsStr(hw.homework_name) /\ hw.homework_name.s # <<>>
    /\ IsStr(hw.status) /\ hw.status.s \in KnownStatuses

\* the verdict message of a valid record
Translation(hw) == VERDICT_MESSAGE(hw.homework_name.s, STATUSES[hw.status.s])

\* the latest fetch returned a payload to main
FetchSucceeded == fetched.called /\ fetched.exc = NoExc

\* the latest request failed in transport
TransportFailed == fetched.called /\ fetched.answer = "RequestException"

\* the latest fetch raised the server-logic error
ServerLogicFailed ==
    fetched.called /\ fetched.exc = Exc("RequestException", "SERVER_ERROR")

\* the review API answered, with a status other than 404, a payload that
\* carries a truthy error or code field
ErrorIndicated ==
    /\ response.kind = "response"
    /\ response.status_code # NOT_FOUND
    /\ response.json = "dict"
    /\ (Truthy(Get(response.body.error)) \/ Truthy(Get(response.body.code)))

\* the fetch of this iteration succeeded with an empty or absent homeworks list
EmptyFetched ==
    /\ FetchSucceeded
    /\ response.kind = "response"
    /\ response.body.homeworks.items = <<>>

\* the fetch of this iteration succeeded with a valid first record and a
\* current_date
ValidFetched ==
    /\ FetchSucceeded
    /\ response.kind = "response"
    /\ response.body.homeworks.items # <<>>
    /\ ValidRecord(response.body.homeworks.items[1])
    /\ response.body.current_date.t # "absent"

\* the sleep at the end of an iteration leads to the next fetch
SleepsThenFetches == pc' = "fetch" /\ slept' = TIME_PAUSE

---------------------------------------------------------------------------
(* Properties of main *)

\* C1: the cursor after a successful fetch is never smaller than the cursor
\* before it (the argument of that fetch), whatever current_date the server
\* reports.
C1_CursorNeverDecreases ==
    (FetchSucceeded /\ current_timestamp.t = "int" /\ fetched.from_date.t = "int")
        => current_timestamp.n >= fetched.from_date.n

\* C2: after a transport failure of the request the loop does not terminate:
\* the cursor is what it was, main sleeps TIME_PAUSE, and the next fetch is
\* issued with the same cursor as the failed one.
C2_TransportRetry ==
    /\ [](TransportFailed => pc # "terminated" /\ current_timestamp = fetched.from_date)
    /\ [][TransportFailed /\ pc = "notify" => pc' = "sleep"]_vars
    /\ [][TransportFailed /\ pc = "sleep" => SleepsThenFetches]_vars
    /\ [][TransportFailed /\ pc = "fetch" =>
            fetched'.requested /\ fetched'.from_date = fetched.from_date]_vars

C2_Witness == TransportFailed /\ pc = "fetch" /\ slept = TIME_PAUSE

\* C3 as stated: when the payload carries an error indicator, get_homeworks
\* raises the server-logic error, the cursor is unchanged and no message at
\* all is handed to the chat in that iteration.
C3_NoMessageOnServerError ==
    ErrorIndicated =>
        /\ ServerLogicFailed
        /\ current_timestamp = fetched.from_date
        /\ delivered = <<>>

\* C3, amended: when the payload (of a response other than 404) carries a
\* truthy error or code field, get_homeworks raises the server-logic error,
\* main catches it, no verdict is sent in that iteration: the one message
\* handed to the chat is the failure notification; main sleeps TIME_PAUSE and
\* the next fetch has the unchanged cursor.
C3_ServerLogicError ==
    /\ [](ErrorIndicated => ServerLogicFailed)
    /\ [](ServerLogicFailed =>
            /\ pc \in {"notify", "sleep", "fetch"}
            /\ current_timestamp = fetched.from_date
            /\ (pc = "notify" =>
                    /\ delivered = <<>>
                    /\ message = SERVICE_ERROR_MESSAGE(ExcStr(fetched.exc)))
            /\ (pc = "sleep" =>
                    /\ Len(delivered) = 1
                    /\ delivered[1].purpose = "failure"
                    /\ delivered[1].text = SERVICE_ERROR_MESSAGE(ExcStr(fetched.exc))))
    /\ [][ServerLogicFailed /\ pc = "sleep" => SleepsThenFetches]_vars
    /\ [][ServerLogicFailed /\ pc = "fetch" =>
            fetched'.from_date = fetched.from_date]_vars

C3_Witness ==
    /\ ServerLogicFailed
    /\ pc = "sleep"
    /\ response.body.error = PyStr(<<"not_ready">>)
    /\ delivered # <<>>

\* C4: an iteration whose fetch succeeds with an empty or absent homeworks
\* list calls send_message not once; main sleeps TIME_PAUSE and goes on to the
\* next fetch.
C4_NoDeliveryWhenEmpty ==
    /\ [](EmptyFetched => pc = "sleep" /\ delivered = <<>>)
    /\ [][EmptyFetched /\ pc = "sleep" => SleepsThenFetches]_vars

C4_Witness ==
    EmptyFetched /\ pc = "sleep" /\ response.body.homeworks = HomeworkList(<<>>)

\* C5: a delivery that fails with a network error or an API error is not
\* raised by send_message, which returns None, and does not end the loop,
\* neither for a verdict nor for the failure notification: after the call
\* main sleeps and goes on to the next fetch.
C5_DeliveryFailureAbsorbed ==
    /\ [](pc # "terminated")
    /\ [](\A i \in DOMAIN delivered :
            delivered[i].outcome \in {"NetworkError", "TelegramError"} =>
                delivered[i].raised = NoExc /\ delivered[i].returned = "None")
    /\ [](delivered # <<>> => pc = "sleep")
    /\ [][delivered # <<>> => SleepsThenFetches]_vars

C5_Witness ==
    /\ pc = "sleep"
    /\ Len(delivered) = 1
    /\ delivered[1].purpose = "failure"
    /\ delivered[1].outcome = "NetworkError"

\* C6: an iteration whose fetch succeeds with a non-empty homeworks list, a
\* valid first record and current_date = d hands exactly one message to
\* send_message, the translation of the first record, and leaves the cursor
\* equal to d.
C6_VerdictOfFirstRecord ==
    ValidFetched =>
        /\ current_timestamp = response.body.current_date
        /\ pc \in {"deliver", "sleep"}
        /\ (pc = "deliver" =>
                /\ delivered = <<>>
                /\ message = Translation(response.body.homeworks.items[1]))
        /\ (pc = "sleep" =>
                /\ Len(delivered) = 1
                /\ delivered[1].purpose = "verdict"
                /\ delivered[1].text = Translation(response.body.homeworks.items[1]))

C6_Witness ==
    /\ ValidFetched
    /\ pc = "sleep"
    /\ Len(response.body.homeworks.items) > 1
    /\ delivered[1].outcome = "Message"
    /\ fetched.from_date = PyInt(StartTime)
    /\ current_timestamp = PyInt(StartTime + 1)

\* C10: whatever the fetches, translations and deliveries do, main never
\* terminates, and it issues a fetch again and again.
C10_LoopForever ==
    /\ [](pc # "terminated")
    /\ []<>(pc = "fetch")
    /\ []<><<Fetch>>_vars

C10_Witness ==
    /\ pc = "fetch"
    /\ fetched.called
    /\ fetched.exc # NoExc
    /\ slept = TIME_PAUSE

---------------------------------------------------------------------------
(* Properties of parse_homework_status *)

NameMissing(hw) == ~Truthy(Get(hw.homework_name))

StatusUnknown(hw) == ~(IsStr(hw.status) /\ hw.status.s \in KnownStatuses)

PresentNotStr(v) == v.t \in {"int", "list"}

\* C7: for a record with a non-empty string homework_name and a known status
\* the result is a message that contains the homework name and, of the
\* verdict texts, exactly the one STATUSES gives for the status.
C7_TranslatesKnownStatus ==
    (pc = "parsed" /\ ValidRecord(homework)) =>
        /\ parsed.exc = NoExc
        /\ Contains(parsed.val, homework.homework_name.s)
        /\ \A k \in DOMAIN STATUSES :
                Contains(parsed.val, STATUSES[k]) <=> k = homework.status.s

C7_Witness ==
    /\ pc = "parsed"
    /\ homework = Homework(PyStr(<<"Task", "2">>), PyStr(<<"approved">>))
    /\ Contains(parsed.val, <<"Task", "2">>)
    /\ Contains(parsed.val, <<"accepted by reviewer">>)

\* C8 as stated: a record whose homework_name is absent or empty fails with
\* the missing-field error, a record whose status is absent or outside the
\* known set fails with the unknown-status error, and neither returns a
\* message.
C8_StructuredErrors ==
    pc = "parsed" =>
        /\ (NameMissing(homework) =>
                parsed.exc = Exc("KeyError", "homework_name") /\ parsed.val = <<>>)
        /\ (StatusUnknown(homework) =>
                parsed.exc = Exc("KeyError", "status") /\ parsed.val = <<>>)

\* C8, amended: a record whose homework_name is absent or empty fails with
\* the missing-field error; a record whose homework_name is not, and whose
\* status is absent or a hashable value outside the known set, fails with the
\* unknown-status error; neither returns a message.
C8_StructuredErrorsInOrder ==
    pc = "parsed" =>
        /\ (NameMissing(homework) =>
                parsed.exc = Exc("KeyError", "homework_name") /\ parsed.val = <<>>)
        /\ (~NameMissing(homework) /\ StatusUnknown(homework)
                /\ (Hashable(homework.status) \/ ~Truthy(homework.status)) =>
                parsed.exc = Exc("KeyError", "status") /\ parsed.val = <<>>)

C8_Witness ==
    /\ pc = "parsed"
    /\ homework = Homework(PyStr(<<"Task1">>), PyStr(<<"unknown">>))
    /\ parsed.exc = Exc("KeyError", "status")

\* C9: a record whose homework_name is present but not a string, or whose
\* status is present but not a string, fails with TypeError.
C9_TypeErrorForNonStrings ==
    (pc = "parsed"
        /\ (PresentNotStr(homework.homework_name) \/ PresentNotStr(homework.status)))
        => parsed.exc.cls = "TypeError"

---------------------------------------------------------------------------
(* Further properties of main *)

\* C11: the cursor changes only in the step of a fetch that succeeds with a
\* response that carries current_date, and then to that value; after a failed
\* fetch, and after a success without current_date, it is the cursor the
\* fetch was called with, whether or not homeworks is empty and whether or
\* not the translation or the delivery fails afterwards.
C11_CursorFrame ==
    /\ [][current_timestamp' # current_timestamp =>
            /\ pc = "fetch"
            /\ fetched'.exc = NoExc
            /\ response'.body.current_date.t # "absent"
            /\ current_timestamp' = response'.body.current_date]_vars
    /\ [](fetched.called /\ fetched.exc # NoExc =>
            current_timestamp = fetched.from_date)
    /\ [](FetchSucceeded /\ response.kind = "response" =>
            current_timestamp =
                IF response.body.current_date.t = "absent" THEN fetched.from_date
                ELSE response.body.current_date)

C11_Witness ==
    /\ FetchSucceeded
    /\ pc = "sleep"
    /\ parsed.exc.cls = "KeyError"
    /\ delivered # <<>>
    /\ delivered[1].outcome = "NetworkError"
    /\ fetched.from_date = PyInt(StartTime)
    /\ current_timestamp = PyInt(StartTime + 1)

\* the fetch or the translation of this iteration raised
IterationFailed ==
    pc # "fetch" /\ fetched.called /\ (fetched.exc # NoExc \/ parsed.exc # NoExc)

\* the exception main caught in this iteration
CaughtError == IF fetched.exc # NoExc THEN fetched.exc ELSE parsed.exc

\* C12: in an iteration in which the fetch or the translation raises (never a
\* messaging error), main calls send_message exactly once, with the generic
\* failure message, and whatever that call's outcome main sleeps TIME_PAUSE
\* and goes on to the next iteration.
C12_OneFailureNotification ==
    /\ [](IterationFailed =>
            /\ ~IsTelegramError(CaughtError)
            /\ pc \in {"notify", "sleep"}
            /\ (pc = "notify" =>
                    /\ delivered = <<>>
                    /\ message = SERVICE_ERROR_MESSAGE(ExcStr(CaughtError)))
            /\ (pc = "sleep" =>
                    /\ Len(delivered) = 1
                    /\ delivered[1].purpose = "failure"
                    /\ delivered[1].text = SERVICE_ERROR_MESSAGE(ExcStr(CaughtError))))
    /\ [][IterationFailed /\ pc = "notify" => pc' = "sleep"]_vars
    /\ [][IterationFailed /\ pc = "sleep" => SleepsThenFetches]_vars

C12_Witness ==
    /\ IterationFailed
    /\ pc = "sleep"
    /\ parsed.exc = Exc("KeyError", "homework_name")
    /\ Len(delivered) = 1
    /\ delivered[1].outcome = "TelegramError"

\* C13: an iteration is one get_homeworks call followed by at most one
\* send_message call, made after get_homeworks has returned or raised; a
\* verdict whose delivery failed is not followed by a failure notification in
\* the same iteration.
C13_OneFetchThenOneDelivery ==
    /\ [](Len(delivered) <= 1)
    /\ [](delivered # <<>> => fetched.called /\ pc = "sleep")
    /\ [][pc = "fetch" => fetched'.called /\ pc' # "fetch" /\ delivered' = <<>>]_vars
    /\ [][pc # "fetch" => fetched' = fetched]_vars
    /\ [][pc' = "fetch" => pc = "sleep"]_vars
    /\ [][delivered' # <<>> /\ delivered' # delivered =>
            /\ pc \in {"deliver", "notify"}
            /\ delivered = <<>>
            /\ fetched.called
            /\ delivered'[1].purpose = (IF pc = "deliver" THEN "verdict" ELSE "failure")]_vars

C13_Witness ==
    /\ pc = "sleep"
    /\ Len(delivered) = 1
    /\ delivered[1].purpose = "verdict"
    /\ delivered[1].outcome = "NetworkError"

---------------------------------------------------------------------------
(* Properties of get_homeworks *)

\* get_homeworks has been called and the review API has answered its request
Answered == pc = "got" /\ fetched.requested /\ response.kind = "response"

\* the answer decodes to a JSON object and is not a 404
Decoded == response.status_code # NOT_FOUND /\ response.json = "dict"

HasIndicator == response.body.error.t # "absent" \/ response.body.code.t # "absent"

HasTruthyIndicator ==
    Truthy(Get(response.body.error)) \/ Truthy(Get(response.body.code))

\* C14 as stated: get_homeworks raises the not-found error for a 404, the
\* server-logic error for a decoded payload that has an error or a code
\* field, whatever its value, and returns every other decoded payload
\* unchanged.
C14_Classification ==
    Answered =>
        /\ (response.status_code = NOT_FOUND =>
                fetched.exc = Exc("HTTPError", "SERVER_ERROR"))
        /\ (Decoded /\ HasIndicator =>
                fetched.exc = Exc("RequestException", "SERVER_ERROR"))
        /\ (Decoded /\ ~HasIndicator =>
                fetched.exc = NoExc /\ homework_statuses = <<response.body>>)

\* C14, amended: get_homeworks raises the not-found error for a 404, the
\* server-logic error for a decoded payload whose error or code field is
\* truthy, and returns every other decoded payload unchanged, one whose error
\* or code field is empty or zero included.
C14_TruthyClassification ==
    Answered =>
        /\ (response.status_code = NOT_FOUND =>
                fetched.exc = Exc("HTTPError", "SERVER_ERROR") /\ homework_statuses = <<>>)
        /\ (Decoded /\ HasTruthyIndicator =>
                fetched.exc = Exc("RequestException", "SERVER_ERROR")
                /\ homework_statuses = <<>>)
        /\ (Decoded /\ ~HasTruthyIndicator =>
                fetched.exc = NoExc /\ homework_statuses = <<response.body>>)

C14_Witness ==
    /\ Answered
    /\ Decoded
    /\ response.body.error = PyStr(<<>>)
    /\ response.body.homeworks.items # <<>>
    /\ homework_statuses = <<response.body>>

\* C17: called with an integer cursor that is no valid point in time,
\* get_homeworks logs the date error and still issues the request, with that
\* cursor as from_date.
C17_InvalidDateTolerated ==
    (pc = "got" /\ current_timestamp.t = "int" /\ current_timestamp.n > MAX_TIMESTAMP)
        => /\ fetched.requested
           /\ fetched.from_date = current_timestamp
           /\ Len(log) > 0
           /\ log[1] = "logging.error: DATE_ERROR"

---------------------------------------------------------------------------
(* Properties of main, continued *)

\* C15: a response whose HTTP status is not 200 is an error: its iteration
\* translates and delivers no verdict and leaves the cursor where it was.
C15_NonOkIsError ==
    (response.kind = "response" /\ response.status_code # 200) =>
        /\ parsed.val = <<>>
        /\ pc # "deliver"
        /\ \A i \in DOMAIN delivered : delivered[i].purpose # "verdict"
        /\ current_timestamp = fetched.from_date

\* C16: the cursor is an integer in every state, whatever the payloads were.
C16_CursorIsInteger == current_timestamp.t = "int"

\* C18: between two consecutive get_homeworks calls main sleeps TIME_PAUSE
\* exactly once, on every path through the iteration; it never calls
\* get_homeworks twice in a row.
C18_OneSleepBetweenFetches ==
    /\ [](pc = "fetch" /\ fetched.called => slept = TIME_PAUSE)
    /\ [](pc \in {"deliver", "notify", "sleep"} => slept = 0)
    /\ [][pc = "fetch" => pc' # "fetch"]_vars
    /\ [][pc' = "fetch" => pc = "sleep" /\ slept' = slept + TIME_PAUSE]_vars

C18_Witness ==
    /\ pc = "fetch"
    /\ slept = TIME_PAUSE
    /\ fetched.called
    /\ fetched.exc = Exc("HTTPError", "SERVER_ERROR")

\* C19: a verdict is handed to send_message only in an iteration whose fetch
\* succeeded and whose first record translated, and it is the translation of
\* that record; the records after the first are neither translated nor
\* delivered in that iteration.
C19_OnlyFirstRecord ==
    /\ (pc = "deliver" \/ \E i \in DOMAIN delivered : delivered[i].purpose = "verdict") =>
            /\ FetchSucceeded
            /\ homework_statuses = <<response.body>>
            /\ response.body.homeworks.items # <<>>
            /\ ValidRecord(response.body.homeworks.items[1])
            /\ parsed = Return(Translation(response.body.homeworks.items[1]), <<>>)
            /\ (pc = "deliver" =>
                    message = Translation(response.body.homeworks.items[1]))
            /\ \A i \in DOMAIN delivered :
                    /\ delivered[i].purpose = "verdict"
                    /\ delivered[i].text = Translation(response.body.homeworks.items[1])
    /\ (homework # NoHomework \/ parsed # NoResult) =>
            /\ response.body.homeworks.items # <<>>
            /\ homework = response.body.homeworks.items[1]
            /\ parsed = parse_homework_status(response.body.homeworks.items[1])
    /\ Len(delivered) <= 1

C19_Witness ==
    /\ pc = "sleep"
    /\ Len(delivered) = 1
    /\ delivered[1].purpose = "verdict"
    /\ delivered[1].outcome = "TelegramError"
    /\ Len(response.body.homeworks.items) > 1
    /\ response.body.homeworks.items[2] # response.body.homeworks.items[1]

====
